---- MODULE Spec2Model ----
(***************************************************************************)
(* Consanguinity validation of unions, as implemented by the two scripts   *)
(* of the repository:                                                      *)
(*   VinculosFamiliares.py ("VF"): parent map built from union records,    *)
(*       breadth-first ancestors / es_ancestro, validar_union;             *)
(*   Vinculos.py ("V"): ArbolGenealogico with a person table, recursive    *)
(*       _es_asc / _ancestros_rec, validar_uniones.                        *)
(* A behaviour runs one of the two scripts: it loads the input row by row, *)
(* then performs one operation on the loaded graph (the validation loop,   *)
(* one of the relationship functions over all arguments, or one            *)
(* breadth-first traversal iteration by iteration).                        *)
(*                                                                         *)
(* Identifiers are 1..NumIds; None (0) stands for None and for the empty   *)
(* string, the two falsy values an identifier field can hold.              *)
(***************************************************************************)
EXTENDS Integers, Sequences, FiniteSets, TLC

VARIABLES prog, phase, padres_map, personas, max_gen, op, ret, bfs

vars == <<prog, phase, padres_map, personas, max_gen, op, ret, bfs>>

\* ---- bounds of the model ----
NumIds == 3
MaxEdges == 3
MaxBfsEdges == 2
MaxPersonas == 2
MaxK == 2
RecLimit == 5

\* ---- program constants ----
DefaultMaxGen == 3
ArbolMaxGeneraciones == 2

None == 0
Ids == 1..NumIds
OptIds == 0..NumIds
Pairs == Ids \X Ids

SeqToSet(s) == {s[i] : i \in 1..Len(s)}

NoDup(s) == \A i, j \in 1..Len(s) : i # j => s[i] # s[j]

\* ======================================================================
\* VinculosFamiliares.py
\* ======================================================================

\* ---- leer_parametros: the value column of the max_generaciones row ----
Digits == {"0", "1", "2", "3", "4", "5", "6", "7", "8", "9"}

DigitVal(c) ==
  CASE c = "0" -> 0 [] c = "1" -> 1 [] c = "2" -> 2 [] c = "3" -> 3
    [] c = "4" -> 4 [] c = "5" -> 5 [] c = "6" -> 6 [] c = "7" -> 7
    [] c = "8" -> 8 [] c = "9" -> 9

RECURSIVE DigitsVal(_)
DigitsVal(s) ==
  IF s = <<>> THEN 0
  ELSE 10 * DigitsVal(SubSeq(s, 1, Len(s) - 1)) + DigitVal(s[Len(s)])

\* the digits of a literal after its optional sign
Unsigned(s) ==
  IF s # <<>> /\ Head(s) \in {"-", "+"} THEN Tail(s) ELSE s

\* int(valor) succeeds: optional sign, then at least one digit
IntParses(s) ==
  /\ Unsigned(s) # <<>>
  /\ \A i \in 1..Len(Unsigned(s)) : Unsigned(s)[i] \in Digits

IntOf(s) ==
  IF s # <<>> /\ Head(s) = "-" THEN 0 - DigitsVal(Unsigned(s))
  ELSE DigitsVal(Unsigned(s))

IntVal(n) == [tag |-> "int", n |-> n]
StrVal == [tag |-> "str", n |-> 0]
Unset == [tag |-> "unset", n |-> 0]

\* the parametros.csv contents tried: no file or no max_generaciones row
\* (has = FALSE), or a row whose value column holds the characters val
RawParams ==
  {[has |-> FALSE, val |-> <<>>]} \cup
  {[has |-> TRUE, val |-> v] :
     v \in {<<"0">>, <<"1">>, <<"2">>, <<"-", "1">>, <<"x">>}}

\* try: valor = int(valor) / except: pass
leer_parametros(raw) ==
  IF ~raw.has THEN [has |-> FALSE, val |-> Unset]
  ELSE [has |-> TRUE,
        val |-> IF IntParses(raw.val) THEN IntVal(IntOf(raw.val)) ELSE StrVal]

\* max_gen = params.get('max_generaciones', 3)
main_max_gen(params) ==
  IF params.has THEN params.val ELSE IntVal(DefaultMaxGen)

\* ---- construir_grafos: one iteration of "for u in uniones" ----
\* (hijos and parejas, which the function also fills, are never read by the
\*  validation and are left out of the state)
construir_grafos(padres, padre, madre, hijo) ==
  LET withPadre == IF hijo # None /\ padre # None
                   THEN [padres EXCEPT ![hijo] = Append(@, padre)]
                   ELSE padres
  IN IF hijo # None /\ madre # None
     THEN [withPadre EXCEPT ![hijo] = Append(@, madre)]
     ELSE withPadre

NumEdges(padres) ==
  LET RECURSIVE Sum(_)
      Sum(n) == IF n = 0 THEN 0 ELSE Len(padres[n]) + Sum(n - 1)
  IN Sum(NumIds)

\* ---- ancestros: breadth-first, bounded by k ----
ancestros_init(persona) ==
  [q |-> <<<<persona, 0>>>>, visited |-> {persona}, resultado |-> {},
   iters |-> 0, enq |-> <<persona>>]

\* body of "for p in padres_map.get(node, [])" for one p
ancestros_visit_unchecked(p, nivel, st) ==
  [st EXCEPT !.resultado = @ \cup {p},
             !.visited = @ \cup {p},
             !.q = Append(@, <<p, nivel + 1>>),
             !.enq = Append(@, p)]

ancestros_visit(p, nivel, st) ==
  LET st1 == [st EXCEPT !.resultado = @ \cup {p}]
  IN IF p \notin st1.visited
     THEN [st1 EXCEPT !.visited = @ \cup {p},
                      !.q = Append(@, <<p, nivel + 1>>),
                      !.enq = Append(@, p)]
     ELSE st1

RECURSIVE ancestros_for(_, _, _)
ancestros_for(ps, nivel, st) ==
  IF ps = <<>> THEN st
  ELSE ancestros_for(Tail(ps), nivel, ancestros_visit(Head(ps), nivel, st))

\* one iteration of "while q" with "nivel > k" in place of "nivel >= k"
ancestros_iter_off_by_one(st, pm, k) ==
  LET node == Head(st.q)[1]
      nivel == Head(st.q)[2]
      popped == [st EXCEPT !.q = Tail(@), !.iters = @ + 1]
  IN IF nivel > k THEN popped
     ELSE ancestros_for(pm[node], nivel, popped)

\* one iteration of "while q"
ancestros_iter(st, pm, k) ==
  LET node == Head(st.q)[1]
      nivel == Head(st.q)[2]
      popped == [st EXCEPT !.q = Tail(@), !.iters = @ + 1]
  IN IF nivel >= k THEN popped
     ELSE ancestros_for(pm[node], nivel, popped)

RECURSIVE ancestros_run(_, _, _)
ancestros_run(st, pm, k) ==
  IF st.q = <<>> THEN st ELSE ancestros_run(ancestros_iter(st, pm, k), pm, k)

\* ancestros(persona, padres_map, k) for an integer k
ancestros(persona, pm, k) ==
  IF persona = None THEN {}
  ELSE ancestros_run(ancestros_init(persona), pm, k).resultado

\* ---- es_ancestro: breadth-first, unbounded ----
\* (a queue entry is the 1-tuple <<node>>, next to ancestros' <<node, nivel>>)
es_ancestro_init(b) ==
  [q |-> <<<<b>>>>, visited |-> {b}, found |-> FALSE, iters |-> 0,
   enq |-> <<b>>]

RECURSIVE es_ancestro_for(_, _, _)
es_ancestro_for(ps, a, st) ==
  IF ps = <<>> THEN st
  ELSE LET p == Head(ps)
       IN IF p = a THEN [st EXCEPT !.found = TRUE]
          ELSE es_ancestro_for(Tail(ps), a,
                 IF p \notin st.visited
                 THEN [st EXCEPT !.visited = @ \cup {p},
                                 !.q = Append(@, <<p>>),
                                 !.enq = Append(@, p)]
                 ELSE st)

\* one iteration of "while q"
es_ancestro_iter(st, pm, a) ==
  es_ancestro_for(pm[Head(st.q)[1]], a,
                  [st EXCEPT !.q = Tail(@), !.iters = @ + 1])

RECURSIVE es_ancestro_run(_, _, _)
es_ancestro_run(st, pm, a) ==
  IF st.found \/ st.q = <<>> THEN st
  ELSE es_ancestro_run(es_ancestro_iter(st, pm, a), pm, a)

\* es_ancestro without its "if a == b: return False"
es_ancestro_no_self_check(a, b, pm) ==
  es_ancestro_run(es_ancestro_init(b), pm, a).found

es_ancestro(a, b, pm) ==
  IF a = b THEN FALSE
  ELSE es_ancestro_run(es_ancestro_init(b), pm, a).found

\* ---- son_hermanos ----
\* son_hermanos without its "if a == b: return False"
son_hermanos_no_self_check(a, b, pm) ==
  SeqToSet(pm[a]) \cap SeqToSet(pm[b]) # {}

son_hermanos(a, b, pm) ==
  IF a = b THEN FALSE
  ELSE Cardinality(SeqToSet(pm[a]) \cap SeqToSet(pm[b])) > 0

\* ---- validar_union ----
Verdict(reason, comunes) ==
  [allowed |-> reason = "ok", reason |-> reason, comunes |-> comunes]

\* max_gen is what main passes: an integer, or the string int() rejected,
\* on which "nivel >= k" raises TypeError in the first iteration
validar_union(a, b, pm, mg) ==
  IF es_ancestro(a, b, pm) \/ es_ancestro(b, a, pm)
  THEN Verdict("lineage", {})
  ELSE IF son_hermanos(a, b, pm)
  THEN Verdict("siblings", {})
  ELSE IF mg.tag # "int"
  THEN Verdict("TypeError", {})
  ELSE LET inter == ancestros(a, pm, mg.n) \cap ancestros(b, pm, mg.n)
       IN IF inter # {} THEN Verdict("shared-ancestor", inter)
          ELSE Verdict("ok", {})

\* ======================================================================
\* Vinculos.py (class ArbolGenealogico)
\* ======================================================================

\* Persona(id_, nombre, padre_id, madre_id): "x if x else None"
Persona(padre_id, madre_id) == [padre_id |-> padre_id, madre_id |-> madre_id]

\* one row of cargar_personas: self.personas[id_] = Persona(...)
cargar_personas(P, id, padre_id, madre_id) ==
  [x \in DOMAIN P \cup {id} |->
     IF x = id THEN Persona(padre_id, madre_id) ELSE P[x]]

IsError(r) == r \in {"KeyError", "RecursionError"}

\* _es_asc(asc, desc); depth counts the frames of the recursion, which the
\* interpreter cuts with RecursionError
RECURSIVE V_es_asc(_, _, _, _)
V_es_asc(asc, desc, P, depth) ==
  IF depth > RecLimit THEN "RecursionError"
  ELSE IF asc = None \/ desc = None THEN "False"
  ELSE IF desc \notin DOMAIN P THEN "KeyError"
  ELSE LET padre == P[desc].padre_id
           madre == P[desc].madre_id
       IN IF asc = padre \/ asc = madre THEN "True"
          ELSE LET left == IF padre # None
                           THEN V_es_asc(asc, padre, P, depth + 1)
                           ELSE "False"
               IN IF IsError(left) \/ left = "True" THEN left
                  ELSE IF madre # None
                       THEN V_es_asc(asc, madre, P, depth + 1)
                       ELSE "False"

\* es_asc_desc(a, b): self._es_asc(a, b) or self._es_asc(b, a)
V_es_asc_desc(a, b, P) ==
  LET first == V_es_asc(a, b, P, 1)
  IN IF IsError(first) \/ first = "True" THEN first
     ELSE V_es_asc(b, a, P, 1)

\* son_hermanos(a, b): pa and ma and pa == pb and ma == mb
V_son_hermanos(a, b, P) ==
  IF a \notin DOMAIN P \/ b \notin DOMAIN P THEN "KeyError"
  ELSE LET pa == P[a].padre_id
           ma == P[a].madre_id
           pb == P[b].padre_id
           mb == P[b].madre_id
       IN IF pa # None /\ ma # None /\ pa = pb /\ ma = mb
          THEN "True" ELSE "False"

\* _ancestros_rec(id_, k, resultado): the set it adds to resultado
RECURSIVE V_ancestros_rec(_, _, _)
V_ancestros_rec(id, k, P) ==
  IF k = 0 \/ id \notin DOMAIN P THEN {}
  ELSE LET up(padre) == IF padre # None
                        THEN {padre} \cup V_ancestros_rec(padre, k - 1, P)
                        ELSE {}
       IN up(P[id].padre_id) \cup up(P[id].madre_id)

\* ancestros(id_, k)
V_ancestros(id, k, P) == V_ancestros_rec(id, k, P)

\* the body of "for a, b in self.uniones" in validar_uniones
V_validar_uniones(a, b, P, mg) ==
  LET asc == V_es_asc_desc(a, b, P)
  IN IF IsError(asc) THEN Verdict(asc, {})
     ELSE IF asc = "True" THEN Verdict("lineage", {})
     ELSE LET sib == V_son_hermanos(a, b, P)
          IN IF IsError(sib) THEN Verdict(sib, {})
             ELSE IF sib = "True" THEN Verdict("siblings", {})
             ELSE LET comunes == V_ancestros(a, mg, P) \cap V_ancestros(b, mg, P)
                  IN IF comunes # {} THEN Verdict("shared-ancestor", comunes)
                     ELSE Verdict("ok", {})

\* ======================================================================
\* The state machine
\* ======================================================================

EmptyMap == [c \in Ids |-> <<>>]
EmptyTable == [x \in {} |-> Persona(None, None)]
Idle == [fn |-> "none"]

Init ==
  /\ prog \in {"VF", "V"}
  /\ phase = "load"
  /\ padres_map = EmptyMap
  /\ personas = EmptyTable
  /\ max_gen = IF prog = "V" THEN IntVal(ArbolMaxGeneraciones) ELSE Unset
  /\ op = "none"
  /\ ret = {}
  /\ bfs = Idle

\* ---- VF: loading ----
ConstruirGrafos(padre, madre, hijo) ==
  /\ prog = "VF" /\ phase = "load"
  /\ NumEdges(construir_grafos(padres_map, padre, madre, hijo)) <= MaxEdges
  /\ padres_map' = construir_grafos(padres_map, padre, madre, hijo)
  /\ UNCHANGED <<prog, phase, personas, max_gen, op, ret, bfs>>

\* ---- V: loading ----
\* (a later row with an id already loaded replaces the earlier Persona, which
\*  gives a table that one row per id gives too: ids are loaded once)
CargarPersonas(id, padre_id, madre_id) ==
  /\ prog = "V" /\ phase = "load"
  /\ id \notin DOMAIN personas
  /\ Cardinality(DOMAIN personas) < MaxPersonas
  /\ personas' = cargar_personas(personas, id, padre_id, madre_id)
  /\ UNCHANGED <<prog, phase, padres_map, max_gen, op, ret, bfs>>

\* ---- VF: main's validation loop, over every pair of identifiers ----
\* (a row without hijo adds its pair to parejas_list and leaves padres_map
\*  alone, so every pair can be validated on every parent map)
Main(raw) ==
  /\ prog = "VF" /\ phase = "load"
  /\ max_gen' = main_max_gen(leer_parametros(raw))
  /\ ret' = [p \in Pairs |-> validar_union(p[1], p[2], padres_map, max_gen')]
  /\ op' = "validar"
  /\ phase' = "done"
  /\ UNCHANGED <<prog, padres_map, personas, bfs>>

\* ---- V: validar_uniones, over every pair of identifiers ----
ValidarUniones ==
  /\ prog = "V" /\ phase = "load"
  /\ ret' = [p \in Pairs |-> V_validar_uniones(p[1], p[2], personas, max_gen.n)]
  /\ op' = "validar"
  /\ phase' = "done"
  /\ UNCHANGED <<prog, padres_map, personas, max_gen, bfs>>

\* ---- VF: the relationship functions, applied to every argument ----
EvalEsAncestro ==
  /\ prog = "VF" /\ phase = "load"
  /\ ret' = [p \in Pairs |->
               IF es_ancestro(p[1], p[2], padres_map) THEN "True" ELSE "False"]
  /\ op' = "linaje"
  /\ phase' = "done"
  /\ UNCHANGED <<prog, padres_map, personas, max_gen, bfs>>

EvalSonHermanos ==
  /\ prog = "VF" /\ phase = "load"
  /\ ret' = [p \in Pairs |->
               IF son_hermanos(p[1], p[2], padres_map) THEN "True" ELSE "False"]
  /\ op' = "son_hermanos"
  /\ phase' = "done"
  /\ UNCHANGED <<prog, padres_map, personas, max_gen, bfs>>

EvalAncestros ==
  /\ prog = "VF" /\ phase = "load"
  /\ ret' = [c \in Ids \X (0..MaxK) |-> ancestros(c[1], padres_map, c[2])]
  /\ op' = "ancestros"
  /\ phase' = "done"
  /\ UNCHANGED <<prog, padres_map, personas, max_gen, bfs>>

\* ---- V: the relationship methods, applied to every argument ----
EvalEsAscDesc ==
  /\ prog = "V" /\ phase = "load"
  /\ ret' = [p \in Pairs |-> V_es_asc_desc(p[1], p[2], personas)]
  /\ op' = "linaje"
  /\ phase' = "done"
  /\ UNCHANGED <<prog, padres_map, personas, max_gen, bfs>>

EvalArbolSonHermanos ==
  /\ prog = "V" /\ phase = "load"
  /\ ret' = [p \in Pairs |-> V_son_hermanos(p[1], p[2], personas)]
  /\ op' = "son_hermanos"
  /\ phase' = "done"
  /\ UNCHANGED <<prog, padres_map, personas, max_gen, bfs>>

EvalArbolAncestros ==
  /\ prog = "V" /\ phase = "load"
  /\ ret' = [c \in Ids \X (0..MaxK) |-> V_ancestros(c[1], c[2], personas)]
  /\ op' = "ancestros"
  /\ phase' = "done"
  /\ UNCHANGED <<prog, padres_map, personas, max_gen, bfs>>

\* ---- VF: one breadth-first traversal, iteration by iteration ----
\* (stepped on the parent maps of at most MaxBfsEdges parent references)
AncestrosStart(persona, k) ==
  /\ prog = "VF" /\ phase = "load"
  /\ NumEdges(padres_map) <= MaxBfsEdges
  /\ bfs' = [fn |-> "ancestros", a |-> persona, k |-> k,
             st |-> ancestros_init(persona)]
  /\ phase' = "bfs"
  /\ UNCHANGED <<prog, padres_map, personas, max_gen, op, ret>>

\* (es_ancestro(a, a) returns before its loop)
EsAncestroStart(a, b) ==
  /\ prog = "VF" /\ phase = "load"
  /\ NumEdges(padres_map) <= MaxBfsEdges
  /\ a # b
  /\ bfs' = [fn |-> "es_ancestro", a |-> a, k |-> 0,
             st |-> es_ancestro_init(b)]
  /\ phase' = "bfs"
  /\ UNCHANGED <<prog, padres_map, personas, max_gen, op, ret>>

BfsFinished(b) ==
  \/ b.st.q = <<>>
  \/ b.fn = "es_ancestro" /\ b.st.found

\* one iteration of the "while q" loop of the running traversal; the
\* function returns when the iteration leaves the queue empty or, in
\* es_ancestro, finds a
BfsIter ==
  /\ phase = "bfs"
  /\ bfs' = [bfs EXCEPT !.st =
               IF bfs.fn = "ancestros"
               THEN ancestros_iter(@, padres_map, bfs.k)
               ELSE es_ancestro_iter(@, padres_map, bfs.a)]
  /\ phase' = IF BfsFinished(bfs') THEN "done" ELSE "bfs"
  /\ op' = IF BfsFinished(bfs') THEN "bfs" ELSE op
  /\ UNCHANGED <<prog, padres_map, personas, max_gen, ret>>

\* VinculosFamiliares.py
NextVF ==
  \/ \E padre, madre, hijo \in OptIds : ConstruirGrafos(padre, madre, hijo)
  \/ \E raw \in RawParams : Main(raw)
  \/ EvalEsAncestro
  \/ EvalSonHermanos
  \/ EvalAncestros
  \/ \E persona \in Ids : \E k \in 0..MaxK : AncestrosStart(persona, k)
  \/ \E a, b \in Ids : EsAncestroStart(a, b)
  \/ BfsIter

\* Vinculos.py
NextV ==
  \/ \E id \in Ids : \E padre_id, madre_id \in OptIds :
       CargarPersonas(id, padre_id, madre_id)
  \/ ValidarUniones
  \/ EvalEsAscDesc
  \/ EvalArbolSonHermanos
  \/ EvalArbolAncestros

Next == NextVF \/ NextV

Spec == Init /\ [][Next]_vars

\* VinculosFamiliares.py alone; the interpreter keeps running a loop that
\* has not finished
InitVF == Init /\ prog = "VF"

FairSpec == InitVF /\ [][NextVF]_vars /\ WF_vars(BfsIter)

\* ======================================================================
\* Reference notions, stated on the loaded graph
\* ======================================================================

\* the recorded parents of x in the graph of the running script
ParentsOf(x) ==
  IF prog = "VF" THEN SeqToSet(padres_map[x])
  ELSE IF x \in DOMAIN personas
       THEN {personas[x].padre_id, personas[x].madre_id} \ {None}
       ELSE {}

\* the identifiers at the end of a chain of exactly d parent edges from x
RECURSIVE Level(_, _)
Level(x, d) ==
  IF d = 0 THEN {x} ELSE UNION {ParentsOf(y) : y \in Level(x, d - 1)}

\* reachable from x by between 1 and k parent edges
Within(x, k) == UNION {Level(x, d) : d \in 1..k}

\* reachable from x by one or more parent edges
Reachable(x) == Within(x, NumIds)

IsAncestor(a, b) == a # b /\ a \in Reachable(b)

Lineage(a, b) == IsAncestor(a, b) \/ IsAncestor(b, a)

ShareParent(a, b) == ParentsOf(a) \cap ParentsOf(b) # {}

\* both parents recorded for a, and b has the same father and the same mother
FullSiblings(a, b) ==
  /\ a \in DOMAIN personas /\ b \in DOMAIN personas
  /\ personas[a].padre_id # None /\ personas[a].madre_id # None
  /\ personas[a].padre_id = personas[b].padre_id
  /\ personas[a].madre_id = personas[b].madre_id

\* the sibling rule each script applies
SiblingRule(a, b) ==
  IF prog = "VF" THEN a # b /\ ShareParent(a, b) ELSE FullSiblings(a, b)

ReasonKinds == {"lineage", "siblings", "shared-ancestor", "ok"}

\* the reason kind of a verdict, or "raises" when the validation of the pair
\* ended in an exception
Outcome(v) == IF v.reason \in ReasonKinds THEN v.reason ELSE "raises"

ValidCap == max_gen.tag = "int" /\ max_gen.n >= 0

Validated == phase = "done" /\ op = "validar"

\* ======================================================================
\* Claims
\* ======================================================================

\* C1: for every graph, pair and max_gen >= 0 the validator reports lineage
\* before siblings, siblings before shared-ancestor, and OK only when none of
\* the three holds; a lineage-related pair is always reported as lineage.
C1_Precedence ==
  Validated /\ ValidCap =>
    \A p \in Pairs :
      LET a == p[1]
          b == p[2]
          v == ret[p]
      IN /\ Lineage(a, b) => v.reason = "lineage"
         /\ v.reason = "siblings" => ~Lineage(a, b)
         /\ v.reason = "shared-ancestor" =>
              ~Lineage(a, b) /\ ~SiblingRule(a, b)
         /\ v.reason = "ok" =>
              /\ ~Lineage(a, b) /\ ~SiblingRule(a, b)
              /\ Within(a, max_gen.n) \cap Within(b, max_gen.n) = {}

\* C2: validating (a, b) and validating (b, a) give the same outcome: the
\* same allowed flag and reason kind, and neither order raises when the
\* other returns a verdict.
C2_Symmetry ==
  Validated =>
    \A a, b \in Ids :
      /\ Outcome(ret[<<a, b>>]) = Outcome(ret[<<b, a>>])
      /\ ret[<<a, b>>].allowed = ret[<<b, a>>].allowed

\* C3 (as claimed): in both scripts son_hermanos(a, b) is true iff a and b
\* have at least one recorded parent in common.
C3_SharedParentIff ==
  phase = "done" /\ op = "son_hermanos" =>
    \A a, b \in Ids : (ret[<<a, b>>] = "True") <=> ShareParent(a, b)

\* C3 (amended): VinculosFamiliares.son_hermanos(a, b) is true iff a # b and
\* a and b have a recorded parent in common; ArbolGenealogico.son_hermanos
\* raises KeyError iff a or b is not in the person table, and otherwise is
\* true iff a has both parents recorded and b has the same father and the
\* same mother.
C3_SonHermanosPolicies ==
  phase = "done" /\ op = "son_hermanos" =>
    \A a, b \in Ids :
      IF prog = "VF"
      THEN (ret[<<a, b>>] = "True") <=> (a # b /\ ShareParent(a, b))
      ELSE /\ (ret[<<a, b>>] = "KeyError") <=>
                (a \notin DOMAIN personas \/ b \notin DOMAIN personas)
           /\ (ret[<<a, b>>] = "True") <=> FullSiblings(a, b)

\* two half siblings of the person table, which ArbolGenealogico.son_hermanos
\* does not report
C3_Witness ==
  /\ phase = "done" /\ op = "son_hermanos" /\ prog = "V"
  /\ \E a, b \in DOMAIN personas :
       a # b /\ ShareParent(a, b) /\ ~FullSiblings(a, b)
       /\ ret[<<a, b>>] = "False"

\* C4: ancestros and es_ancestro of VinculosFamiliares.py terminate on every
\* parent map, cyclic ones included; no identifier is enqueued twice in a
\* call, and the iterations never outnumber the identifiers reached.
C4_BfsTerminates ==
  /\ [](bfs.fn # "none" =>
          /\ NoDup(bfs.st.enq)
          /\ bfs.st.iters <= Cardinality(bfs.st.visited)
          /\ bfs.st.visited \subseteq {bfs.st.enq[1]} \cup Reachable(bfs.st.enq[1]))
  /\ (phase = "bfs") ~> (phase = "done")

\* a traversal that has returned after several iterations on a map in which
\* the starting person is its own ancestor
C4_Witness ==
  /\ phase = "done" /\ op = "bfs"
  /\ bfs.st.enq[1] \in Reachable(bfs.st.enq[1])
  /\ bfs.st.iters >= 2

\* C5: in both scripts ancestros(p, k), k >= 0, is exactly the set of
\* identifiers reachable from p by between 1 and k parent edges; so k = 0
\* gives the empty set and the result for k is within the result for k + 1.
C5_AncestrosExact ==
  phase = "done" /\ op = "ancestros" =>
    \A x \in Ids : \A k \in 0..MaxK :
      /\ ret[<<x, k>>] = Within(x, k)
      /\ k = 0 => ret[<<x, k>>] = {}
      /\ k < MaxK => ret[<<x, k>>] \subseteq ret[<<x, k + 1>>]

\* an identifier reachable at depth 1 and at depth 2, and another one at
\* depth 2 only, which the collection for k = 1 leaves out
C5_Witness ==
  /\ phase = "done" /\ op = "ancestros"
  /\ \E x \in Ids :
       /\ Level(x, 1) \cap Level(x, 2) # {}
       /\ Level(x, 2) \ Level(x, 1) # {}
       /\ ret[<<x, 2>>] # ret[<<x, 1>>]

\* C6: es_ancestro(a, b) is true exactly when a # b and a is reachable from b
\* by one or more parent edges (es_ancestro(a, a) is false even on a cycle),
\* and validar_union rejects a lineage-related pair as lineage for every
\* max_gen.
C6_LineageUnbounded ==
  /\ prog = "VF" /\ phase = "done" /\ op = "linaje" =>
       \A a, b \in Ids : (ret[<<a, b>>] = "True") <=> IsAncestor(a, b)
  /\ prog = "VF" /\ Validated =>
       \A a, b \in Ids : Lineage(a, b) => ret[<<a, b>>].reason = "lineage"

\* an ancestor at depth 2 only, rejected as lineage under a cap below 2
C6_Witness ==
  /\ prog = "VF" /\ Validated
  /\ max_gen.tag = "int" /\ max_gen.n < 2
  /\ \E a, b \in Ids :
       /\ a # b /\ a \in Level(b, 2) /\ a \notin Level(b, 1)
       /\ ret[<<a, b>>].reason = "lineage"

\* C7: a parent identifier, or a pair member, absent from the person table is
\* not an error: every lineage check and every validation still returns a
\* result and never raises.
C7_UnknownIdNeverRaises ==
  /\ Validated /\ ValidCap => \A p \in Pairs : ret[p].reason # "KeyError"
  /\ phase = "done" /\ op = "linaje" => \A p \in Pairs : ret[p] # "KeyError"

\* C8: with a negative or non-numeric max_generaciones no pair is given a
\* verdict.
C8_FailFast ==
  prog = "VF" /\ Validated /\ ~ValidCap =>
    \A p \in Pairs : ret[p].reason \notin ReasonKinds

\* C9: after construir_grafos every child of the parent map has between 0 and
\* 2 parent identifiers.
C9_AtMostTwoParents ==
  prog = "VF" =>
    \A c \in Ids : Cardinality(SeqToSet(padres_map[c])) <= 2

\* C10: es_asc_desc of Vinculos.py returns after finitely many recursive
\* calls on every person table, cyclic ones included.
C10_EsAscDescTerminates ==
  prog = "V" /\ phase = "done" /\ op = "linaje" =>
    \A p \in Pairs : ret[p] # "RecursionError"

====
